---- MODULE Spec2Model ----
(***************************************************************************)
(* Model of src/python/models.py: the preference-learning models built on  *)
(* BaseModel.  The state is one model object (a TwoClustersMIP or a        *)
(* RandomExampleModel) together with the Gurobi model it owns; the actions *)
(* are the public methods fit, predict_utility and predict_cluster.        *)
(*                                                                         *)
(* Numbers.  Feature values are integers.  Utilities, bounds and           *)
(* right-hand sides are counted in units of epsilon = 1/EpsDen, so that    *)
(* 1.0 is EpsDen units and epsilon is 1 unit.  The interpolation weight    *)
(* (x - x_l)/(x_l1 - x_l) is kept as the exact fraction tnum/tden.         *)
(* Arrays are functions over 0..len-1, as in Python.                       *)
(***************************************************************************)
EXTENDS Integers, Sequences, FiniteSets, TLC

\* ------------------------------------------------------------------------
\* Constants of TwoClustersMIP.__init__
\* ------------------------------------------------------------------------
\* self.n = 4: the number of features the MIP reads from every row.
n == 4

\* self.M = 5: the big-M of the pair constraints.
M == 5

\* self.epsilon = 0.001 = 1/EpsDen.
EpsDen == 1000

\* self.P: the number of training pairs the MIP is built for.  The source
\* sets 2000; the loops over range(self.P) are run here over P pairs.
P == 2

\* ------------------------------------------------------------------------
\* Bounds of the exploration
\* ------------------------------------------------------------------------
\* n_pieces and n_clusters given to the constructor range over 1..MaxL, 1..MaxK.
MaxL == 2
MaxK == 2
\* Number of fit calls made on one object.
MaxFits == 2

epsilon == 1
Unit == EpsDen

\* ------------------------------------------------------------------------
\* Input batches
\* ------------------------------------------------------------------------
\* Rows the batches are cut from; n+1 columns, so that a batch can carry one
\* feature more than the MIP reads.  Column 3 is constant over rows 0..4.
Pool ==
  << <<0, 0, 2, 1, 0>>,
     <<4, 2, 0, 1, 1>>,
     <<2, 4, 4, 1, 3>>,
     <<1, 3, 1, 1, 2>>,
     <<3, 1, 3, 1, 4>>,
     <<2, 2, 2, 3, 2>> >>

PoolLen == Len(Pool)

\* An array or dict as a stored value: its entries are computed once, when it
\* is built, and not again at every read.
Stored(f) == f @@ << >>

\* The (rows, cols) array whose row j is Pool row (start + j) mod PoolLen.
Batch(start, rows, cols) ==
  Stored([j \in 0..(rows - 1) |-> Stored([i \in 0..(cols - 1) |->
      Pool[((start + j) % PoolLen) + 1][i + 1]])])

\* X.shape[0], X.shape[1]
Rows(X) == Cardinality(DOMAIN X)
Cols(X) == IF DOMAIN X = {} THEN 0 ELSE Cardinality(DOMAIN X[0])

\* Arguments offered to fit: the shape the MIP expects (P rows, n features)
\* with three different contents, then X and Y differing in rows, X short of
\* rows, Y short of rows, X and Y differing in features, both one feature
\* short, both one feature more.
FitInputs ==
  { <<Batch(0, P, n), Batch(4, P, n)>>,
    <<Batch(0, P, n), Batch(1, P, n)>>,
    <<Batch(4, P, n), Batch(2, P, n)>>,
    <<Batch(0, P + 1, n), Batch(4, P, n)>>,
    <<Batch(0, P - 1, n), Batch(4, P, n)>>,
    <<Batch(0, P, n), Batch(4, P - 1, n)>>,
    <<Batch(0, P, n), Batch(4, P, n + 1)>>,
    <<Batch(0, P, n - 1), Batch(4, P, n - 1)>>,
    <<Batch(0, P, n + 1), Batch(4, P, n + 1)>> }

\* Arguments offered to predict_utility and predict_cluster.
PredictBatches == {Batch(0, 2, n), Batch(5, 1, n), Batch(2, 2, n - 1)}
PredictInputs ==
  { <<Batch(0, 2, n), Batch(4, 2, n)>>,
    <<Batch(5, 2, n), Batch(0, 2, n)>>,
    <<Batch(1, 3, n), Batch(1, 3, n)>>,
    <<Batch(1, 3, n), Batch(3, 3, n)>>,
    <<Batch(5, 1, n), Batch(0, 2, n)>>,
    <<Batch(1, 3, n), Batch(0, 2, n)>>,
    <<Batch(2, 2, n - 1), Batch(0, 2, n - 1)>> }

Max2(a, b) == IF a >= b THEN a ELSE b
Min2(a, b) == IF a <= b THEN a ELSE b

RECURSIVE SumTo(_, _)
\* sum of f[0..m-1]
SumTo(f, m) == IF m = 0 THEN 0 ELSE SumTo(f, m - 1) + f[m - 1]

VARIABLES
  cls,          \* class of the object
  L, K,         \* self.L, self.K
  mvars,        \* the variables of self.m
  constrs,      \* the constraints of self.m, in the order they were added
  sum_utilite,  \* self.sum_utilite
  status,       \* what self.m reports after the last optimize
  sol,          \* the values of the u variables after the last optimize
  weights,      \* self.weights of a RandomExampleModel
  mins, maxs,   \* the arrays of lines 212-213 in the last fit that ran to its return
  nfit,         \* number of fit calls made so far
  call,         \* the last method call and its arguments
  ret           \* how that call ended: the exception raised, the value returned

vars == <<cls, L, K, mvars, constrs, sum_utilite, status, sol, weights,
          mins, maxs, nfit, call, ret>>

\* ------------------------------------------------------------------------
\* TwoClustersMIP.instantiate
\* ------------------------------------------------------------------------
\* Each comprehension of instantiate creates one family of variables that
\* share type and bounds (Gurobi's defaults are lb = 0 and no upper bound);
\* dims is the shape of the nested list, so that the family holds the
\* variables name_<index> for every index below dims.
Family(nm, dims, vtype, hasUb, ub) ==
  [name |-> nm, dims |-> dims, vtype |-> vtype, lb |-> 0, hasUb |-> hasUb, ub |-> ub]

instantiate(l_, k_) ==
  { Family("u", <<k_, n, l_ + 1>>, "C", TRUE, Unit),
    Family("sigmax+", <<P>>, "C", FALSE, 0),
    Family("sigmay+", <<P>>, "C", FALSE, 0),
    Family("sigmax-", <<P>>, "C", FALSE, 0),
    Family("sigmay-", <<P>>, "C", FALSE, 0),
    Family("binary", <<P, k_>>, "B", TRUE, 1) }

\* ------------------------------------------------------------------------
\* fit: mins, maxs and the helpers li, xl, u_i
\* ------------------------------------------------------------------------
\* np.concatenate((X,Y),axis=0).min(axis=0) and .max(axis=0)
Column(X, Y, i) == {X[j][i] : j \in DOMAIN X} \cup {Y[j][i] : j \in DOMAIN Y}
ColMin(X, Y) == Stored([i \in 0..(Cols(X) - 1) |->
                   CHOOSE v \in Column(X, Y, i) : \A w \in Column(X, Y, i) : v <= w])
ColMax(X, Y) == Stored([i \in 0..(Cols(X) - 1) |->
                   CHOOSE v \in Column(X, Y, i) : \A w \in Column(X, Y, i) : v >= w])

\* li: floor(L * (x - mins[i]) / (maxs[i] - mins[i]))
li(l_, mn, mx, i, x) == (l_ * (x - mn[i])) \div (mx[i] - mn[i])

\* (x - xl(i,l)) / (xl(i,l+1) - xl(i,l)) with xl(i,l) = mins[i] + l*(maxs[i]-mins[i])/L,
\* as the fraction tnum/tden: numerator and denominator both multiplied by L.
TNum(l_, mn, mx, i, x, l) == l_ * (x - mn[i]) - l * (mx[i] - mn[i])
TDen(mn, mx, i) == mx[i] - mn[i]

\* u_i(j, i, X, k): the expression returned for feature i of row j, over the
\* variables criteria[k][i][.] of its cluster and feature.
\*   form "var":  the variable criteria[k][i][-1], that is criteria[k][i][L]
\*   form "prod": (criteria[k][i][l] + tnum/tden) * (criteria[k][i][l+1] - criteria[k][i][l])
u_i(l_, mn, mx, j, i, X, k) ==
  IF X[j][i] = mx[i]
    THEN [form |-> "var", l |-> l_, tnum |-> 0, tden |-> 1]
    ELSE LET l == li(l_, mn, mx, i, X[j][i])
         IN  [form |-> "prod", l |-> l,
              tnum |-> TNum(l_, mn, mx, i, X[j][i], l), tden |-> TDen(mn, mx, i)]

\* quicksum([u_i(j,i,X,k) for i in range(self.n)])
SumUtil(l_, mn, mx, j, X, k) ==
  Stored([i \in 0..(n - 1) |-> u_i(l_, mn, mx, j, i, X, k)])

\* The expression of u_i multiplied out, as Gurobi holds it: tden times the
\* expression is  sum_a LinCoef(t,a) * u[a]  +  sum_{a<=b} QuadCoef(t,a,b) * u[a]*u[b],
\* where u[a] stands for criteria[k][i][a].  The product of form "prod" is
\*   u[l]*u[l+1] - u[l]*u[l] + (tnum/tden)*u[l+1] - (tnum/tden)*u[l].
LinCoef(t, a) ==
  IF t.form = "var" THEN (IF a = t.l THEN 1 ELSE 0)
  ELSE IF a = t.l + 1 THEN t.tnum
  ELSE IF a = t.l THEN -t.tnum
  ELSE 0

QuadCoef(t, a, b) ==
  IF t.form = "var" THEN 0
  ELSE IF a = t.l /\ b = t.l + 1 THEN t.tden
  ELSE IF a = t.l /\ b = t.l THEN -t.tden
  ELSE 0

\* ------------------------------------------------------------------------
\* fit: the constraints added to self.m
\* ------------------------------------------------------------------------
\* Lines 252 and 253.  The left-hand side is
\*   sum_utilite[0,k,j] - sigma_plus_x[j] + sigma_moins_x[j]
\*     - sum_utilite[1,k,j] + sigma_plus_y[j] - sigma_moins_y[j]
\* and is recorded by the two utility sums and the coefficient of each slack.
\* The right-hand side rhsConst + rhsBin * binary[j][k] is
\*   -M*(1 - binary[j][k])          for the ">=" constraint,
\*   M*binary[j][k] - epsilon        for the "<=" constraint.
\* The left-hand side with the slack signs exchanged between X and Y:
\* + sigma_plus_x - sigma_moins_x - sigma_plus_y + sigma_moins_y.
PairLhsSignsExchanged(su, j, k) ==
  [j |-> j, k |-> k,
   utilX |-> su[<<0, k, j>>], utilY |-> su[<<1, k, j>>],
   sigma_plus_x |-> 1, sigma_moins_x |-> -1,
   sigma_plus_y |-> -1, sigma_moins_y |-> 1]

PairLhs(su, j, k) ==
  [j |-> j, k |-> k,
   utilX |-> su[<<0, k, j>>], utilY |-> su[<<1, k, j>>],
   sigma_plus_x |-> -1, sigma_moins_x |-> 1,
   sigma_plus_y |-> 1, sigma_moins_y |-> -1]

PairGe(su, j, k) ==
  [lhs |-> PairLhs(su, j, k), type |-> "pair", sense |-> ">=",
   rhsConst |-> -(M * Unit), rhsBin |-> M * Unit]

PairLe(su, j, k) ==
  [lhs |-> PairLhs(su, j, k), type |-> "pair", sense |-> "<=",
   rhsConst |-> -epsilon, rhsBin |-> M * Unit]

\* for j in range(self.P): for k in range(self.K): the two constraints
PairConstrs(su, k_) ==
  [x \in 1..(2 * P * k_) |->
     LET idx == x - 1
         j == idx \div (2 * k_)
         k == (idx % (2 * k_)) \div 2
     IN  IF idx % 2 = 0 THEN PairGe(su, j, k) ELSE PairLe(su, j, k)]

\* Line 258: criteria[k][i][l+1] - criteria[k][i][l] >= epsilon
Mono(k, i, l) == [type |-> "mono", k |-> k, i |-> i, l |-> l,
                  sense |-> ">=", rhs |-> epsilon]

\* The loop of line 257 run over range(self.L - 1), as its comment considers:
\* the last piece of every chain is left without a constraint.
MonoConstrsShort(l_, k_) ==
  [x \in 1..(k_ * n * (l_ - 1)) |->
     LET idx == x - 1
     IN  Mono(idx \div (n * (l_ - 1)), (idx \div (l_ - 1)) % n, idx % (l_ - 1))]

MonoConstrs(l_, k_) ==
  [x \in 1..(k_ * n * l_) |->
     LET idx == x - 1
     IN  Mono(idx \div (n * l_), (idx \div l_) % n, idx % l_)]

\* Line 262: criteria[k][i][0] == 0
Zero(k, i) == [type |-> "zero", k |-> k, i |-> i, l |-> 0,
               sense |-> "=", rhs |-> 0]

ZeroConstrs(k_) ==
  [x \in 1..(k_ * n) |-> Zero((x - 1) \div n, (x - 1) % n)]

\* Line 265: quicksum([criteria[k][i][self.L-1] for i in range(self.n)]) == 1
NormIndex(l_) == l_ - 1

Norm(l_, k) == [type |-> "norm", k |-> k, l |-> NormIndex(l_),
                sense |-> "=", rhs |-> Unit]

NormConstrs(l_, k_) == [x \in 1..k_ |-> Norm(l_, x - 1)]

\* Line 268: quicksum([binary[j][k] for k in range(self.K)]) >= 1
Cover(j) == [type |-> "cover", j |-> j, sense |-> ">=", rhs |-> 1]

CoverConstrs == [x \in 1..P |-> Cover(x - 1)]

\* Everything one complete run of fit adds, in the order of lines 250-268.
FitConstrs(su, l_, k_) ==
  PairConstrs(su, k_) \o MonoConstrs(l_, k_) \o ZeroConstrs(k_)
    \o NormConstrs(l_, k_) \o CoverConstrs

\* ------------------------------------------------------------------------
\* self.model.optimize(): the external solver
\* ------------------------------------------------------------------------
\* The constraints on the u variables alone (mono, zero, norm and the bounds
\* lb=0, ub=1) decide feasibility: with the same u values in every cluster
\* the pair constraints of a pair j all have the same utility difference,
\* which the four slacks of j (unbounded above) cancel with binary[j][k] = 1
\* for every k, and that also satisfies the cover constraint.
\* The indices <<k, i, l>> of the constraints of one type on the u variables.
At(cs, type) ==
  {<<cs[x].k, cs[x].i, cs[x].l>> : x \in {y \in DOMAIN cs : cs[y].type = type}}

\* The <<k, l, rhs>> of the normalisation constraints.
NormAt(cs) ==
  {<<cs[x].k, cs[x].l, cs[x].rhs>> : x \in {y \in DOMAIN cs : cs[y].type = "norm"}}

RECURSIVE Lo(_, _, _, _)
\* least value u[k][i][l] can take under the bounds and the chain constraints
Lo(mono, k, i, l) ==
  IF l = 0 THEN 0
  ELSE IF <<k, i, l - 1>> \in mono THEN Max2(0, Lo(mono, k, i, l - 1) + epsilon)
  ELSE 0

RECURSIVE Hi(_, _, _, _, _, _)
\* greatest value u[k][i][l] can take under the bounds and the chain constraints
Hi(mono, zero, l_, k, i, l) ==
  LET fromZero == IF <<k, i, l>> \in zero THEN 0 ELSE Unit
      fromMono == IF l < l_ /\ <<k, i, l>> \in mono
                    THEN Hi(mono, zero, l_, k, i, l + 1) - epsilon ELSE Unit
  IN  Min2(Unit, Min2(fromZero, fromMono))

Feasible(cs, l_, k_) ==
  LET mono == At(cs, "mono")
      zero == At(cs, "zero")
  IN  /\ \A k \in 0..(k_ - 1), i \in 0..(n - 1), l \in 0..l_ :
            Lo(mono, k, i, l) <= Hi(mono, zero, l_, k, i, l)
      /\ \A c \in NormAt(cs) :
            /\ SumTo([i \in 0..(n - 1) |-> Lo(mono, c[1], i, c[2])], n) <= c[3]
            /\ SumTo([i \in 0..(n - 1) |-> Hi(mono, zero, l_, c[1], i, c[2])], n) >= c[3]

\* Does an assignment of the u variables satisfy every constraint on them?
SatisfiesU(u, cs) ==
  /\ \A k \in DOMAIN u : \A i \in DOMAIN u[k] : \A l \in DOMAIN u[k][i] :
        u[k][i][l] >= 0 /\ u[k][i][l] <= Unit
  /\ \A x \in DOMAIN cs :
        LET c == cs[x]
        IN  CASE c.type = "mono" -> u[c.k][c.i][c.l + 1] - u[c.k][c.i][c.l] >= c.rhs
              [] c.type = "zero" -> u[c.k][c.i][c.l] = c.rhs
              [] c.type = "norm" ->
                   SumTo([i \in 0..(n - 1) |-> u[c.k][i][c.l]], n) = c.rhs
              [] OTHER -> TRUE

\* The assignments the solver is taken to return: the same chain for every
\* cluster and feature, rising by s per piece and by d on the last piece
\* (s = 1/8 or 1/4, d = epsilon or 1/4); which of them it returns is left
\* open.  They hold a solution of every feasible system with L <= 3.
Chain(l_, s, d) == [l \in 0..l_ |-> IF l < l_ THEN s * l ELSE s * (l_ - 1) + d]

Candidates(l_, k_) ==
  {[k \in 0..(k_ - 1) |-> [i \in 0..(n - 1) |-> Chain(l_, s, d)]] :
      s \in {125, 250}, d \in {1, 250}}

Solutions(cs, l_, k_) == {u \in Candidates(l_, k_) : SatisfiesU(u, cs)}

\* ------------------------------------------------------------------------
\* State after construction
\* ------------------------------------------------------------------------
NoCall == [op |-> "__init__", X |-> << >>, Y |-> << >>]
Returned(v) == [exc |-> "none", val |-> v]
Raised(e) == [exc |-> e, val |-> << >>]

\* TwoClustersMIP(n_pieces, n_clusters)
InitMIP ==
  /\ cls = "TwoClustersMIP"
  /\ L \in 1..MaxL
  /\ K \in 1..MaxK
  /\ mvars = instantiate(L, K)
  /\ constrs = << >>
  /\ sum_utilite = << >>
  /\ status = "LOADED"
  /\ sol = << >>
  /\ weights = << >>

\* RandomExampleModel(): weights = [], two clusters
InitRandom ==
  /\ cls = "RandomExampleModel"
  /\ L = 0
  /\ K = 2
  /\ mvars = {}
  /\ constrs = << >>
  /\ sum_utilite = << >>
  /\ status = "LOADED"
  /\ sol = << >>
  /\ weights = << >>

Init ==
  /\ InitMIP \/ InitRandom
  /\ mins = << >>
  /\ maxs = << >>
  /\ nfit = 0
  /\ call = NoCall
  /\ ret = Returned(<< >>)

\* ------------------------------------------------------------------------
\* TwoClustersMIP.fit
\* ------------------------------------------------------------------------
\* X[j,i] for every i in range(self.n) can be read
Readable(X, j) == j < Rows(X) /\ Cols(X) >= n

\* the entries of sum_utilite one complete run of lines 234-237 writes
AllUtil(l_, k_, mn, mx, X, Y) ==
  [key \in {0, 1} \X (0..(k_ - 1)) \X (0..(P - 1)) |->
     SumUtil(l_, mn, mx, key[3], IF key[1] = 0 THEN X ELSE Y, key[2])]

\* the entries written before the IndexError at pair js of cluster 0
PartUtil(l_, mn, mx, X, Y, js) ==
  LET keys == {<<s, 0, j>> : s \in {0, 1}, j \in 0..(js - 1)}
                \cup (IF Readable(X, js) THEN {<<0, 0, js>>} ELSE {})
  IN  [key \in keys |->
         SumUtil(l_, mn, mx, key[3], IF key[1] = 0 THEN X ELSE Y, key[2])]

\* dict update: the entries of new replace or extend those of old
Updated(old, new) ==
  Stored([key \in DOMAIN old \cup DOMAIN new |->
            IF key \in DOMAIN new THEN new[key] ELSE old[key]])

\* np.concatenate refuses arrays whose feature counts differ (line 212).
FitMIPValueError(X, Y) ==
  /\ cls = "TwoClustersMIP"
  /\ nfit < MaxFits
  /\ Cols(X) # Cols(Y)
  /\ nfit' = nfit + 1
  /\ call' = [op |-> "fit", X |-> X, Y |-> Y]
  /\ ret' = Raised("ValueError")
  /\ UNCHANGED <<cls, L, K, mvars, constrs, sum_utilite, status, sol, weights,
                 mins, maxs>>

\* X[j,i] or Y[j,i] is out of range for some j < P, i < n (lines 236-237).
FitMIPIndexError(X, Y) ==
  /\ cls = "TwoClustersMIP"
  /\ nfit < MaxFits
  /\ Cols(X) = Cols(Y)
  /\ \E j \in 0..(P - 1) : ~Readable(X, j) \/ ~Readable(Y, j)
  /\ LET mn == ColMin(X, Y)
         mx == ColMax(X, Y)
         bad == {j \in 0..(P - 1) : ~Readable(X, j) \/ ~Readable(Y, j)}
         js == CHOOSE j \in bad : \A j2 \in bad : j <= j2
     IN  sum_utilite' = Updated(sum_utilite, PartUtil(L, mn, mx, X, Y, js))
  /\ nfit' = nfit + 1
  /\ call' = [op |-> "fit", X |-> X, Y |-> Y]
  /\ ret' = Raised("IndexError")
  /\ UNCHANGED <<cls, L, K, mvars, constrs, status, sol, weights, mins, maxs>>

\* fit runs to its return: the utility sums, the constraints, the solve.
FitMIPDone(X, Y) ==
  /\ cls = "TwoClustersMIP"
  /\ nfit < MaxFits
  /\ Cols(X) = Cols(Y)
  /\ \A j \in 0..(P - 1) : Readable(X, j) /\ Readable(Y, j)
  /\ LET mn == ColMin(X, Y)
         mx == ColMax(X, Y)
         su == Updated(sum_utilite, AllUtil(L, K, mn, mx, X, Y))
         cs == constrs \o FitConstrs(su, L, K)
     IN  /\ mins' = mn
         /\ maxs' = mx
         /\ sum_utilite' = su
         /\ constrs' = cs
         /\ IF Feasible(cs, L, K)
              THEN /\ status' = "OPTIMAL"
                   /\ sol' \in Solutions(cs, L, K)
              ELSE /\ status' = "INFEASIBLE"
                   /\ sol' = << >>
  /\ nfit' = nfit + 1
  /\ call' = [op |-> "fit", X |-> X, Y |-> Y]
  /\ ret' = Returned(<< >>)
  /\ UNCHANGED <<cls, L, K, mvars, weights>>

\* ------------------------------------------------------------------------
\* RandomExampleModel.fit
\* ------------------------------------------------------------------------
\* weights / np.sum(weights): a vector of num_features non-negative weights
\* that sum to 1, here in tenths; the draw of np.random.rand is left open
\* between the vectors that put most of the weight on feature 0 or on feature 1.
WeightVectors(c) ==
  {[i \in 0..(c - 1) |-> IF i = h THEN 10 - (c - 1) ELSE 1] : h \in {0, 1}}

FitRandom(X, Y) ==
  /\ cls = "RandomExampleModel"
  /\ nfit < MaxFits
  /\ \E w1 \in WeightVectors(Cols(X)), w2 \in WeightVectors(Cols(X)) :
        weights' = <<w1, w2>>
  /\ nfit' = nfit + 1
  /\ call' = [op |-> "fit", X |-> X, Y |-> Y]
  /\ ret' = Returned(<< >>)
  /\ UNCHANGED <<cls, L, K, mvars, constrs, sum_utilite, status, sol, mins, maxs>>

\* ------------------------------------------------------------------------
\* predict_utility
\* ------------------------------------------------------------------------
\* np.zeros((n_samples, self.K))
Zeros(rows, cols) == [j \in 0..(rows - 1) |-> [k \in 0..(cols - 1) |-> 0]]

\* TwoClustersMIP.predict_utility: the loop prints sum_utilite[0,k,j] for
\* every k < K, j < P and criteria[k][i][0]; nothing is added to
\* decision_function, which is returned as created.
PredictUtilityMIP(X) ==
  IF \E k \in 0..(K - 1), j \in 0..(P - 1) : <<0, k, j>> \notin DOMAIN sum_utilite
    THEN Raised("KeyError")
    ELSE Returned(Zeros(Rows(X), K))

\* np.dot(X, w)
Dot(x, w) == SumTo([i \in DOMAIN x |-> x[i] * w[i]], Cardinality(DOMAIN x))

\* RandomExampleModel.predict_utility
PredictUtilityRandom(X) ==
  IF weights = << >> THEN Raised("IndexError")
  ELSE IF Cols(X) # Cardinality(DOMAIN weights[1]) THEN Raised("ValueError")
  ELSE Returned([j \in DOMAIN X |->
                   [k \in 0..1 |-> Dot(X[j], weights[k + 1])]])

predict_utility(X) ==
  IF cls = "TwoClustersMIP" THEN PredictUtilityMIP(X) ELSE PredictUtilityRandom(X)

PredictUtility(X) ==
  /\ call' = [op |-> "predict_utility", X |-> X, Y |-> << >>]
  /\ ret' = predict_utility(X)
  /\ UNCHANGED <<cls, L, K, mvars, constrs, sum_utilite, status, sol, weights,
                 mins, maxs, nfit>>

\* ------------------------------------------------------------------------
\* BaseModel.predict_cluster
\* ------------------------------------------------------------------------
\* X_u - Y_u under NumPy broadcasting: equal row counts, or one side has one row
Broadcastable(a, b) == Rows(a) = Rows(b) \/ Rows(a) = 1 \/ Rows(b) = 1

Minus(a, b) ==
  [j \in 0..(Max2(Rows(a), Rows(b)) - 1) |->
     [k \in DOMAIN a[0] |->
        a[IF Rows(a) = 1 THEN 0 ELSE j][k] - b[IF Rows(b) = 1 THEN 0 ELSE j][k]]]

RECURSIVE ArgmaxLast(_, _)
\* the last index holding the greatest value of row[0..m-1]
ArgmaxLast(row, m) ==
  IF m = 1 THEN 0
  ELSE LET b == ArgmaxLast(row, m - 1)
       IN  IF row[m - 1] >= row[b] THEN m - 1 ELSE b

RECURSIVE ArgmaxUpTo(_, _)
\* np.argmax over row[0..m-1]: the first index holding the greatest value
ArgmaxUpTo(row, m) ==
  IF m = 1 THEN 0
  ELSE LET b == ArgmaxUpTo(row, m - 1)
       IN  IF row[m - 1] > row[b] THEN m - 1 ELSE b

\* an argmax that breaks ties towards the highest index
np_argmax_last(D) == [j \in DOMAIN D |-> ArgmaxLast(D[j], Cardinality(DOMAIN D[j]))]

\* np.argmax(D, axis=1)
np_argmax(D) == [j \in DOMAIN D |-> ArgmaxUpTo(D[j], Cardinality(DOMAIN D[j]))]

predict_cluster(X, Y) ==
  LET X_u == predict_utility(X)
  IN  IF X_u.exc # "none" THEN X_u
      ELSE LET Y_u == predict_utility(Y)
           IN  IF Y_u.exc # "none" THEN Y_u
               ELSE IF ~Broadcastable(X_u.val, Y_u.val) THEN Raised("ValueError")
               ELSE Returned(np_argmax(Minus(X_u.val, Y_u.val)))

PredictCluster(X, Y) ==
  /\ call' = [op |-> "predict_cluster", X |-> X, Y |-> Y]
  /\ ret' = predict_cluster(X, Y)
  /\ UNCHANGED <<cls, L, K, mvars, constrs, sum_utilite, status, sol, weights,
                 mins, maxs, nfit>>

\* ------------------------------------------------------------------------
\* Specification
\* ------------------------------------------------------------------------
Next ==
  \/ \E a \in FitInputs : FitMIPValueError(a[1], a[2])
  \/ \E a \in FitInputs : FitMIPIndexError(a[1], a[2])
  \/ \E a \in FitInputs : FitMIPDone(a[1], a[2])
  \/ \E a \in FitInputs : FitRandom(a[1], a[2])
  \/ \E X \in PredictBatches : PredictUtility(X)
  \/ \E a \in PredictInputs : PredictCluster(a[1], a[2])

Spec == Init /\ [][Next]_vars

\* ------------------------------------------------------------------------
\* Properties
\* ------------------------------------------------------------------------
IsMIP == cls = "TwoClustersMIP"

\* the last call was a fit of the MIP that ran to its return
FitReturned == IsMIP /\ call.op = "fit" /\ ret.exc = "none"

\* The piecewise-linear utility of value x on feature i read from a table
\* u of breakpoint values, as the fraction <<numerator, denominator>>: the
\* last breakpoint value at x = max, otherwise
\* u[l] + (x - x_l)/(x_l1 - x_l) * (u[l+1] - u[l]).
Interp(u, mn, mx, i, x) ==
  IF x = mx[i] THEN <<u[L], 1>>
  ELSE LET l == (L * (x - mn[i])) \div (mx[i] - mn[i])
           num == L * (x - mn[i]) - l * (mx[i] - mn[i])
           den == mx[i] - mn[i]
       IN  <<u[l] * den + num * (u[l + 1] - u[l]), den>>

RECURSIVE UtilityUpTo(_, _, _, _, _)
\* sum over the features 0..m-1 of the interpolated utilities, as a fraction
UtilityUpTo(u, mn, mx, row, m) ==
  IF m = 0 THEN <<0, 1>>
  ELSE LET a == UtilityUpTo(u, mn, mx, row, m - 1)
           b == Interp(u[m - 1], mn, mx, m - 1, row[m - 1])
       IN  <<a[1] * b[2] + b[1] * a[2], a[2] * b[2]>>

\* every feature of the row lies in the range seen at fit time, on a feature
\* whose range is not a single point
InFitRange(row) ==
  \A i \in 0..(n - 1) : mins[i] < maxs[i] /\ mins[i] <= row[i] /\ row[i] <= maxs[i]

\* C1: after a fit that solved the model, predict_utility(X) returns the
\* (n_samples, n_clusters) matrix whose entry [j,k] is the sum over the
\* features of the interpolated utility of X[j,i], from the solved u values
\* and the min/max of the fit.
C1_PredictUtilityInterpolates ==
  (IsMIP /\ call.op = "predict_utility" /\ ret.exc = "none" /\ status = "OPTIMAL")
    => /\ DOMAIN ret.val = DOMAIN call.X
       /\ \A j \in DOMAIN call.X : InFitRange(call.X[j]) =>
            \A k \in 0..(K - 1) :
               LET want == UtilityUpTo(sol[k], mins, maxs, call.X[j], n)
               IN  ret.val[j][k] * want[2] = want[1]

\* C2: for every sample j, predict_cluster(X, Y) returns a cluster index k
\* whose margin predict_utility(X)[j,k] - predict_utility(Y)[j,k] is the
\* greatest of the row, and no lower index reaches that margin.
C2_PredictClusterArgmax ==
  (call.op = "predict_cluster" /\ ret.exc = "none" /\ Rows(call.X) = Rows(call.Y))
    => LET X_u == predict_utility(call.X).val
           Y_u == predict_utility(call.Y).val
       IN  /\ DOMAIN ret.val = DOMAIN call.X
           /\ \A j \in DOMAIN call.X :
                LET best == ret.val[j]
                    margin(k) == X_u[j][k] - Y_u[j][k]
                IN  /\ best \in 0..(K - 1)
                    /\ \A k \in 0..(K - 1) : margin(k) <= margin(best)
                    /\ \A k \in 0..(best - 1) : margin(k) < margin(best)

\* C2 witness: predict_cluster has returned for a batch in which one row has
\* its greatest margin only at cluster 1, which is returned, and another row
\* has the same margin at both clusters, for which 0 is returned.
C2_Witness ==
  /\ call.op = "predict_cluster" /\ ret.exc = "none" /\ Rows(call.X) = Rows(call.Y)
  /\ K >= 2
  /\ LET X_u == predict_utility(call.X).val
         Y_u == predict_utility(call.Y).val
     IN  /\ \E j \in DOMAIN call.X :
              /\ X_u[j][1] - Y_u[j][1] > X_u[j][0] - Y_u[j][0]
              /\ ret.val[j] = 1
         /\ \E j \in DOMAIN call.X :
              /\ X_u[j][1] - Y_u[j][1] = X_u[j][0] - Y_u[j][0]
              /\ X_u[j][0] # Y_u[j][0]
              /\ ret.val[j] = 0

\* C3: once fit has added constraints, every cluster k has the constraint
\* sum_i u[k][i][L] = 1 on the values at the last breakpoint, index L.
C3_NormalisedAtLastBreakpoint ==
  (IsMIP /\ Len(constrs) > 0)
    => \A k \in 0..(K - 1) :
          \E x \in DOMAIN constrs :
             /\ constrs[x].type = "norm"
             /\ constrs[x].k = k
             /\ constrs[x].l = L
             /\ constrs[x].sense = "="
             /\ constrs[x].rhs = Unit

\* C4: once fit has added constraints, every cluster k and feature i has
\* u[k][i][0] = 0 and u[k][i][l+1] - u[k][i][l] >= epsilon for every
\* 0 <= l < L among them, the u variables are bounded to [0,1], and the
\* solved values start at 0, rise by at least epsilon and stay in [0,1].
C4_ZeroPointAndMonotone ==
  (IsMIP /\ Len(constrs) > 0)
    => /\ \A k \in 0..(K - 1), i \in 0..(n - 1) :
            /\ \E x \in DOMAIN constrs :
                  constrs[x] = [type |-> "zero", k |-> k, i |-> i, l |-> 0,
                                sense |-> "=", rhs |-> 0]
            /\ \A l \in 0..(L - 1) :
                  \E x \in DOMAIN constrs :
                     constrs[x] = [type |-> "mono", k |-> k, i |-> i, l |-> l,
                                   sense |-> ">=", rhs |-> epsilon]
       /\ \E f \in mvars :
            /\ f.name = "u" /\ f.dims = <<K, n, L + 1>>
            /\ f.lb = 0 /\ f.hasUb /\ f.ub = Unit
       /\ status = "OPTIMAL" =>
            \A k \in 0..(K - 1), i \in 0..(n - 1) :
               /\ sol[k][i][0] = 0
               /\ \A l \in 0..(L - 1) : sol[k][i][l + 1] - sol[k][i][l] >= epsilon
               /\ \A l \in 0..L : sol[k][i][l] >= 0 /\ sol[k][i][l] <= Unit

\* C4 witness: a model of at least two pieces has been fitted and solved.
C4_Witness ==
  IsMIP /\ L >= 2 /\ K >= 2 /\ Len(constrs) > 0 /\ status = "OPTIMAL"

\* the constraints the step has appended to self.m
Added == SubSeq(constrs', Len(constrs) + 1, Len(constrs'))

\* a step that is a fit call of the MIP running to its return
FitStep == IsMIP /\ nfit' = nfit + 1 /\ ret'.exc = "none"

\* Among the constraints cs, exactly two are pair constraints of (j, k): one
\* expr >= -M*(1 - binary[j][k]) and one expr <= M*binary[j][k] - epsilon,
\* both on the expression
\*   utilX - utilY + sx*(sigma_plus_x[j] - sigma_moins_x[j])
\*                 + sy*(sigma_plus_y[j] - sigma_moins_y[j])
\* where utilX and utilY are the utility sums su of the rows X[j] and Y[j].
TwoSided(cs, su, j, k, sx, sy) ==
  LET expr == [j |-> j, k |-> k,
               utilX |-> su[<<0, k, j>>],
               utilY |-> su[<<1, k, j>>],
               sigma_plus_x |-> sx, sigma_moins_x |-> -sx,
               sigma_plus_y |-> sy, sigma_moins_y |-> -sy]
      ge == [lhs |-> expr, type |-> "pair", sense |-> ">=",
             rhsConst |-> -(M * Unit), rhsBin |-> M * Unit]
      le == [lhs |-> expr, type |-> "pair", sense |-> "<=",
             rhsConst |-> -epsilon, rhsBin |-> M * Unit]
      mine == {x \in DOMAIN cs :
                 cs[x].type = "pair" /\ cs[x].lhs.j = j /\ cs[x].lhs.k = k}
  IN  /\ Cardinality(mine) = 2
      /\ \E x \in mine : cs[x] = ge
      /\ \E x \in mine : cs[x] = le

\* C5 as stated: for every pair j and cluster k, fit adds exactly the two
\* inequalities on expr = utilX - utilY + (sigma_plus_x - sigma_moins_x)
\* - (sigma_plus_y - sigma_moins_y).
C5_PairConstraintsAsStated ==
  [][FitStep => \A j \in 0..(P - 1), k \in 0..(K - 1) :
                   TwoSided(Added, sum_utilite', j, k, 1, -1)]_vars

\* C5 amended: for every pair index j < P and cluster k, a fit that runs to
\* its return adds exactly the two inequalities on
\* expr = utilX - utilY - (sigma_plus_x - sigma_moins_x)
\* + (sigma_plus_y - sigma_moins_y), and no other pair constraint.
C5_PairConstraints ==
  [][FitStep =>
       /\ \A j \in 0..(P - 1), k \in 0..(K - 1) :
             TwoSided(Added, sum_utilite', j, k, -1, 1)
       /\ \A x \in DOMAIN Added : Added[x].type = "pair" =>
             Added[x].lhs.j \in 0..(P - 1) /\ Added[x].lhs.k \in 0..(K - 1)]_vars

\* C5 witness: a fit of a two-cluster MIP has returned, and the model holds
\* pair constraints of the last pair and the last cluster over an
\* interpolated (not only last-breakpoint) utility.
C5_Witness ==
  /\ FitReturned /\ K >= 2
  /\ \E x \in DOMAIN constrs :
        /\ constrs[x].type = "pair"
        /\ constrs[x].lhs.j = P - 1 /\ constrs[x].lhs.k = K - 1
        /\ \E i \in 0..(n - 1) : constrs[x].lhs.utilX[i].form = "prod"

\* C6: after a fit call has returned, the solver model holds exactly the
\* constraints of that call, whatever fit calls came before it.
C6_OnlyLastFitConstraints ==
  FitReturned => constrs = FitConstrs(sum_utilite, L, K)

\* C7: a fit whose pooled rows of X and Y have max_i = min_i on some
\* feature i ends in the degenerate-feature error.
C7_DegenerateFeatureRaises ==
  (IsMIP /\ call.op = "fit" /\ Cols(call.X) = Cols(call.Y) /\ Cols(call.X) >= n
     /\ \E i \in 0..(n - 1) : ColMin(call.X, call.Y)[i] = ColMax(call.X, call.Y)[i])
    => ret.exc = "DegenerateFeatureError"

\* C8: a fit whose X and Y differ in sample count or feature count fails
\* with an input-validation error, and no solver variable or constraint
\* exists at that moment.
C8_ShapeMismatchRejected ==
  (IsMIP /\ call.op = "fit"
     /\ (Rows(call.X) # Rows(call.Y) \/ Cols(call.X) # Cols(call.Y)))
    => /\ ret.exc = "ValueError"
       /\ mvars = {}
       /\ Len(constrs) = 0

\* C9: after a fit has returned, for every row value x with min_i <= x < max_i
\* the expression built by u_i is u[l] + (x - x_l)/(x_l1 - x_l) * (u[l+1] - u[l])
\* with l = floor(L*(x - min_i)/(max_i - min_i)): linear in the u variables,
\* with weight 1 - t on u[l] and t on u[l+1], hence u[l] at x = x_l.
C9_InterpolationIsLinear ==
  FitReturned =>
    \A key \in DOMAIN sum_utilite : \A i \in 0..(n - 1) :
       LET x == (IF key[1] = 0 THEN call.X ELSE call.Y)[key[3]][i]
           t == sum_utilite[key][i]
           l == (L * (x - mins[i])) \div (maxs[i] - mins[i])
       IN  (mins[i] <= x /\ x < maxs[i]) =>
              /\ t.l = l
              /\ t.tnum * (maxs[i] - mins[i])
                    = t.tden * (L * (x - mins[i]) - l * (maxs[i] - mins[i]))
              /\ \A a \in 0..L, b \in 0..L : QuadCoef(t, a, b) = 0
              /\ \A a \in 0..L :
                    LinCoef(t, a) = IF a = l THEN t.tden - t.tnum
                                    ELSE IF a = l + 1 THEN t.tnum
                                    ELSE 0

\* C10: after a fit has returned, the solve has not found the constraint
\* system infeasible, whatever n_pieces >= 1 and n_clusters >= 1.
C10_NeverInfeasible ==
  FitReturned => status # "INFEASIBLE"

====
